---- MODULE Spec2Model ----
(***************************************************************************)
(* Model of app.py: the WebSearcher / LLMProcessor / DataProcessor         *)
(* pipeline and the Streamlit session that drives it.                      *)
(*                                                                         *)
(* Text values (Python str) are sequences of one-character strings, so    *)
(* that joining and stripping are computed, not assumed.  A Python dict   *)
(* is a set of <<key, value>> pairs; a JSON value inside a search result  *)
(* is tagged with its type ("str" or "null").                             *)
(***************************************************************************)
EXTENDS Integers, Sequences, FiniteSets, TLC

VARIABLES
    data,           \* st.session_state.data: None or the entity column of the loaded table
    sessResults,    \* st.session_state.results: None or a list of records
    resultsFrom,    \* history: the table whose Process action produced sessResults
    caller,         \* "main" (dashboard run) or "direct" (process_entities called directly)
    pc,             \* position of the script: idle / loop / searching / extracting / returned / raised
    entities,       \* process_entities argument `entities`
    prompt,         \* process_entities argument `prompt`
    i,              \* 1-based position of the for loop in `entities`
    results,        \* process_entities local `results`
    searchResults,  \* process_entities local `search_results` (argument of the extraction in flight)
    inflight,       \* outbound calls issued and not yet returned
    log,            \* history: begin/end events of the outbound calls of the current run
    trace,          \* history: per processed entity, what its search and extraction did
    fnArg,          \* SpecSearch: the HTTP outcome handed to WebSearcher.search
    fnRet           \* SpecSearch: what WebSearcher.search did with it

vars == <<data, sessResults, resultsFrom, caller, pc, entities, prompt, i, results,
          searchResults, inflight, log, trace, fnArg, fnRet>>

session == <<data, sessResults, resultsFrom>>
locals == <<entities, prompt, i, results, searchResults, inflight, log, trace>>
fnVars == <<fnArg, fnRet>>

----------------------------------------------------------------------------
(* Bounds of the model *)

MaxLen == 2          \* longest entity column
MaxResults == 3      \* longest organic_results list handed to search alone
MaxPipeResults == 2  \* longest organic_results list inside a pipeline run

(* Program constants *)

NumResults == 5      \* "num": 5, the result-count limit sent to the search API

----------------------------------------------------------------------------
(* Values *)

None == [some |-> FALSE, v |-> <<>>]      \* Python None in an Optional slot
Some(x) == [some |-> TRUE, v |-> x]
NL == "\n"
Whitespace == {" ", NL}

Entities == {<<"e", "1">>, <<"e", "2">>}

NoDataFound == <<"N", "o", " ", "d", "a", "t", "a", " ", "f", "o", "u", "n", "d">>

SeqsUpTo(S, n) == UNION {[1..k -> S] : k \in 0..n}

Min(a, b) == IF a < b THEN a ELSE b

(* Outcome of a Python call: a returned value or an exception that left it *)
Return(x) == [raised |-> FALSE, value |-> x]
Raise == [raised |-> TRUE, value |-> <<>>]

----------------------------------------------------------------------------
(* Python and JSON primitives the code relies on *)

StrVal(s) == [t |-> "str", s |-> s]
NullVal == [t |-> "null", s |-> <<>>]

(* dict.get(key, default) on a dict given as a set of <<key, value>> pairs *)
DictGet(d, key, default) ==
    IF \E p \in d : p[1] = key
    THEN (CHOOSE p \in d : p[1] = key)[2]
    ELSE default

(* sep.join(list of str) with sep = "\n" *)
RECURSIVE Join(_)
Join(strs) ==
    IF strs = <<>> THEN <<>>
    ELSE IF Len(strs) = 1 THEN strs[1]
    ELSE strs[1] \o <<NL>> \o Join(Tail(strs))

(* str.strip(): leading and trailing whitespace removed *)
RECURSIVE LStrip(_)
LStrip(s) == IF s # <<>> /\ s[1] \in Whitespace THEN LStrip(Tail(s)) ELSE s

RECURSIVE RStrip(_)
RStrip(s) ==
    IF s # <<>> /\ s[Len(s)] \in Whitespace THEN RStrip(SubSeq(s, 1, Len(s) - 1)) ELSE s

Strip(s) == RStrip(LStrip(s))

(* Prompt templates, as sequences of pieces: literal text, the {entity}    *)
(* replacement field, or a replacement field str.format cannot fill.       *)
EntityField == <<"{", "entity", "}">>
OtherField == <<"{", "name", "}">>

ValidTemplate == <<<<"q", " ">>, EntityField>>
LiteralTemplate == <<<<"q">>>>
BadTemplate == <<<<"q", " ">>, OtherField>>

Templates == {ValidTemplate, LiteralTemplate, BadTemplate}

(* prompt.format(entity=entity): KeyError on a field other than entity *)
Format(p, entity) ==
    IF \E k \in 1..Len(p) : p[k] = OtherField
    THEN Raise
    ELSE Return([k \in 1..Len(p) |-> IF p[k] = EntityField THEN entity ELSE p[k]])

----------------------------------------------------------------------------
(* WebSearcher.search, LLMProcessor.extract_information as functions of    *)
(* their arguments and of what the outside world answered                  *)

(* What requests.get / raise_for_status / response.json() produced *)
HttpOk(json) == [kind |-> "ok", json |-> json]
HttpRequestException == [kind |-> "request_exception", json |-> {}]

SnippetDict(v) == {<<"snippet", v>>}
EmptyDict == {}

ResultDicts(texts) == {EmptyDict, SnippetDict(NullVal)} \cup {SnippetDict(StrVal(s)) : s \in texts}

HttpOutcomes(texts, n) ==
    {HttpRequestException, HttpOk({})}
        \cup {HttpOk({<<"organic_results", l>>}) :
                 l \in SeqsUpTo(ResultDicts(texts), Min(n, NumResults))}

WebSearcherSearch(entity, p, http) ==
    IF Format(p, entity).raised THEN Raise
    ELSE IF http.kind = "request_exception" THEN Return(<<>>)
    ELSE
        LET rs == DictGet(http.json, "organic_results", <<>>)
            snippets == [k \in 1..Len(rs) |-> DictGet(rs[k], "snippet", StrVal(<<>>))]
        IN  IF \E k \in 1..Len(rs) : snippets[k].t # "str"
            THEN Raise
            ELSE Return(Join([k \in 1..Len(rs) |-> snippets[k].s]))

(* What groq_client.chat.completions.create produced *)
LlmOk(content) == [kind |-> "ok", content |-> content]
LlmError == [kind |-> "error", content |-> <<>>]

LlmContents == {<<"x">>, <<" ", "x", NL>>, <<" ">>}
LlmOutcomes == {LlmError} \cup {LlmOk(c) : c \in LlmContents}

ExtractInformationSentinel(entity, p, search_results, llm) ==
    IF Format(p, entity).raised THEN Raise
    ELSE IF llm.kind = "ok" THEN Return(Strip(llm.content))
    ELSE Return(NoDataFound)

ExtractInformation(entity, p, search_results, llm) ==
    IF Format(p, entity).raised THEN Raise
    ELSE IF llm.kind = "ok" THEN Return(Strip(llm.content))
    ELSE Return(<<>>)

Record(entity, info) == [Entity |-> entity, Info |-> info]

(* else: results.append({"Entity": entity, "Extracted Information": "No data found"}) *)
NoDataRecordBlank(entity) == Record(entity, <<>>)

NoDataRecord(entity) == Record(entity, NoDataFound)

----------------------------------------------------------------------------
(* Inputs the environment may supply *)

PipeSnippetTexts == {<<"a">>}
SearchSnippetTexts == {<<>>, <<"a">>, <<"b">>}

PipeHttpOutcomes == HttpOutcomes(PipeSnippetTexts, MaxPipeResults)
SearchHttpOutcomes == HttpOutcomes(SearchSnippetTexts, MaxResults)

EntityLists == SeqsUpTo(Entities, MaxLen)

(* The tables the dashboard user has at hand (their entity column): an     *)
(* empty one, a single row, and two rows                                   *)
E1 == <<"e", "1">>
E2 == <<"e", "2">>
Tables == {<<>>, <<E1>>, <<E2, E1>>}

(* History bookkeeping *)
Event(ev, kind, idx) == [ev |-> ev, kind |-> kind, idx |-> idx]
Call(kind, idx, arg) == [kind |-> kind, idx |-> idx, arg |-> arg]

NoSnippets(http) ==
    /\ http.kind = "ok"
    /\ LET rs == DictGet(http.json, "organic_results", <<>>)
       IN  \A k \in 1..Len(rs) : rs[k] = EmptyDict

Running == pc \in {"loop", "searching", "extracting"}

----------------------------------------------------------------------------
(* DataProcessor.process_entities, one step per outbound call boundary *)

(* for entity in entities: search(entity, prompt) up to requests.get *)
ForEntity ==
    /\ pc = "loop"
    /\ i <= Len(entities)
    /\ IF Format(prompt, entities[i]).raised
       THEN /\ pc' = "raised"
            /\ UNCHANGED <<inflight, log>>
       ELSE /\ pc' = "searching"
            /\ inflight' = inflight \cup {Call("search", i, Format(prompt, entities[i]).value)}
            /\ log' = Append(log, Event("begin", "search", i))
    /\ UNCHANGED <<session, caller, entities, prompt, i, results, searchResults, trace, fnVars>>

(* a variant that starts the extraction call and moves on without         *)
(* waiting for it                                                          *)
SearchReturnsFireAndForget(http) ==
    /\ pc = "searching"
    /\ LET r == WebSearcherSearch(entities[i], prompt, http)
           ended == Append(log, Event("end", "search", i))
           done == {c \in inflight : c.kind = "search" /\ c.idx = i}
       IN  IF r.raised
           THEN /\ pc' = "raised"
                /\ inflight' = inflight \ done
                /\ log' = ended
                /\ UNCHANGED <<i, results, trace>>
           ELSE IF r.value # <<>>
           THEN /\ pc' = "loop"
                /\ inflight' = (inflight \ done)
                       \cup {Call("extract", i, <<Format(prompt, entities[i]).value, r.value>>)}
                /\ log' = Append(ended, Event("begin", "extract", i))
                /\ trace' = Append(trace, [empty |-> FALSE, nosnip |-> NoSnippets(http),
                                            llm |-> "pending"])
                /\ results' = Append(results, Record(entities[i], <<>>))
                /\ i' = i + 1
           ELSE /\ pc' = "loop"
                /\ results' = Append(results, NoDataRecord(entities[i]))
                /\ i' = i + 1
                /\ inflight' = inflight \ done
                /\ log' = ended
                /\ trace' = Append(trace, [empty |-> TRUE, nosnip |-> NoSnippets(http),
                                            llm |-> "none"])
    /\ UNCHANGED <<session, caller, entities, prompt, searchResults, fnVars>>

(* the search call returns; `if search_results:` either starts the         *)
(* extraction call or appends the "No data found" record                   *)
SearchReturns(http) ==
    /\ pc = "searching"
    /\ LET r == WebSearcherSearch(entities[i], prompt, http)
           ended == Append(log, Event("end", "search", i))
           done == {c \in inflight : c.kind = "search" /\ c.idx = i}
       IN  IF r.raised
           THEN /\ pc' = "raised"
                /\ inflight' = inflight \ done
                /\ log' = ended
                /\ UNCHANGED <<i, results, searchResults, trace>>
           ELSE IF r.value # <<>>
           THEN /\ pc' = "extracting"
                /\ searchResults' = r.value
                /\ inflight' = (inflight \ done)
                       \cup {Call("extract", i, <<Format(prompt, entities[i]).value, r.value>>)}
                /\ log' = Append(ended, Event("begin", "extract", i))
                /\ trace' = Append(trace, [empty |-> FALSE, nosnip |-> NoSnippets(http),
                                            llm |-> "pending"])
                /\ UNCHANGED <<i, results>>
           ELSE /\ pc' = "loop"
                /\ results' = Append(results, NoDataRecord(entities[i]))
                /\ i' = i + 1
                /\ inflight' = inflight \ done
                /\ log' = ended
                /\ trace' = Append(trace, [empty |-> TRUE, nosnip |-> NoSnippets(http),
                                            llm |-> "none"])
                /\ UNCHANGED searchResults
    /\ UNCHANGED <<session, caller, entities, prompt, fnVars>>

(* a variant that publishes the records to the session as they are made *)
ExtractReturnsPublishing(llm) ==
    /\ pc = "extracting"
    /\ LET r == ExtractInformation(entities[i], prompt, searchResults, llm)
       IN  /\ inflight' = {c \in inflight : ~(c.kind = "extract" /\ c.idx = i)}
           /\ log' = Append(log, Event("end", "extract", i))
           /\ IF r.raised
              THEN /\ pc' = "raised"
                   /\ UNCHANGED <<i, results, trace, sessResults>>
              ELSE /\ pc' = "loop"
                   /\ results' = Append(results, Record(entities[i], r.value))
                   /\ i' = i + 1
                   /\ trace' = [trace EXCEPT ![Len(trace)].llm =
                                    IF llm.kind = "ok" THEN "ok" ELSE "fail"]
                   /\ sessResults' = IF caller = "main" THEN Some(results') ELSE sessResults
    /\ searchResults' = <<>>
    /\ UNCHANGED <<data, resultsFrom, caller, entities, prompt, fnVars>>

(* the completion call returns; the record is appended *)
ExtractReturns(llm) ==
    /\ pc = "extracting"
    /\ LET r == ExtractInformation(entities[i], prompt, searchResults, llm)
       IN  /\ inflight' = {c \in inflight : ~(c.kind = "extract" /\ c.idx = i)}
           /\ log' = Append(log, Event("end", "extract", i))
           /\ IF r.raised
              THEN /\ pc' = "raised"
                   /\ UNCHANGED <<i, results, trace>>
              ELSE /\ pc' = "loop"
                   /\ results' = Append(results, Record(entities[i], r.value))
                   /\ i' = i + 1
                   /\ trace' = [trace EXCEPT ![Len(trace)].llm =
                                    IF llm.kind = "ok" THEN "ok" ELSE "fail"]
    /\ searchResults' = <<>>
    /\ UNCHANGED <<session, caller, entities, prompt, fnVars>>

(* return results; in main, st.session_state.results = results *)
ReturnResults ==
    /\ pc = "loop"
    /\ i > Len(entities)
    /\ pc' = "returned"
    /\ IF caller = "main"
       THEN /\ sessResults' = Some(results)
            /\ resultsFrom' = data
       ELSE UNCHANGED <<sessResults, resultsFrom>>
    /\ UNCHANGED <<data, caller, locals, fnVars>>

----------------------------------------------------------------------------
(* main(): one rerun of the script, up to the call of process_entities     *)

Load(kind, t) == [kind |-> kind, table |-> t]
Loads == {Load("none", <<>>), Load("fail", <<>>)} \cup {Load("table", t) : t \in Tables}

Rerun(load, button, custom_prompt) ==
    /\ caller = "main"
    /\ ~Running
    /\ button => data.some
    /\ data' = IF load.kind = "none" THEN data
               ELSE IF load.kind = "fail" THEN None
               ELSE Some(load.table)
    /\ IF data'.some /\ button
       THEN /\ pc' = "loop"
            /\ entities' = data'.v
            /\ prompt' = custom_prompt
       ELSE /\ pc' = "idle"
            /\ entities' = <<>>
            /\ prompt' = ValidTemplate
    /\ i' = 1
    /\ results' = <<>>
    /\ searchResults' = <<>>
    /\ inflight' = {}
    /\ log' = <<>>
    /\ trace' = <<>>
    /\ UNCHANGED <<sessResults, resultsFrom, caller, fnVars>>

----------------------------------------------------------------------------
(* The shape of the state *)

TypeOK ==
    /\ data \in {None} \cup {Some(t) : t \in Tables}
    /\ sessResults.some \in BOOLEAN
    /\ resultsFrom \in {None} \cup {Some(t) : t \in Tables}
    /\ caller \in {"main", "direct"}
    /\ pc \in {"idle", "loop", "searching", "extracting", "returned", "raised", "fn"}
    /\ prompt \in Templates
    /\ i \in 1..(Len(entities) + 1)
    /\ Len(results) <= Len(entities)
    /\ \A k \in 1..Len(results) : results[k].Entity \in Entities
    /\ Len(trace) \in {Len(results), Len(results) + 1}
    /\ fnRet.some \in BOOLEAN

----------------------------------------------------------------------------
(* Specifications *)

InitLocals ==
    /\ i = 1
    /\ results = <<>>
    /\ searchResults = <<>>
    /\ inflight = {}
    /\ log = <<>>
    /\ trace = <<>>

InitFn ==
    /\ fnArg = HttpRequestException
    /\ fnRet = None

(* The dashboard session *)
Init ==
    /\ data = None
    /\ sessResults = None
    /\ resultsFrom = None
    /\ caller = "main"
    /\ pc = "idle"
    /\ entities = <<>>
    /\ prompt = ValidTemplate
    /\ InitLocals
    /\ InitFn

Pipeline ==
    \/ ForEntity
    \/ \E http \in PipeHttpOutcomes : SearchReturns(http)
    \/ \E llm \in LlmOutcomes : ExtractReturns(llm)
    \/ ReturnResults

Next ==
    \/ \E load \in Loads, button \in BOOLEAN, p \in Templates : Rerun(load, button, p)
    \/ Pipeline

Spec == Init /\ [][Next]_vars

(* process_entities called on its own with any arguments *)
InitPipeline ==
    /\ data = None
    /\ sessResults = None
    /\ resultsFrom = None
    /\ caller = "direct"
    /\ pc = "loop"
    /\ entities \in EntityLists
    /\ prompt \in Templates
    /\ InitLocals
    /\ InitFn

NextPipeline == Pipeline

SpecPipeline == InitPipeline /\ [][NextPipeline]_vars

(* WebSearcher.search applied to one HTTP outcome *)
ApplySearch ==
    /\ pc = "fn"
    /\ fnRet = None
    /\ fnRet' = Some(WebSearcherSearch(entities[1], prompt, fnArg))
    /\ UNCHANGED <<session, caller, pc, locals, fnArg>>

InitSearch ==
    /\ data = None
    /\ sessResults = None
    /\ resultsFrom = None
    /\ caller = "direct"
    /\ pc = "fn"
    /\ entities \in {<<e>> : e \in Entities}
    /\ prompt = ValidTemplate
    /\ InitLocals
    /\ fnArg \in SearchHttpOutcomes
    /\ fnRet = None

NextSearch == ApplySearch

SpecSearch == InitSearch /\ [][NextSearch]_vars

----------------------------------------------------------------------------
(* Properties *)

Finished == pc \in {"returned", "raised"}

Begins(kind, k) == {j \in 1..Len(log) : log[j] = Event("begin", kind, k)}
Outbound == {j \in 1..Len(log) : log[j].ev = "begin"}

(* C1: whenever process_entities(E, P) ends, it has returned a list with   *)
(* one record per entity of E, in E's order.                               *)
C1_OneRecordPerEntity ==
    Finished =>
        /\ pc = "returned"
        /\ Len(results) = Len(entities)
        /\ \A k \in 1..Len(entities) : results[k].Entity = entities[k]

(* Every run that does return keeps the cardinality and order of E. *)
ReturnedRunsKeepEntities ==
    pc = "returned" =>
        /\ Len(results) = Len(entities)
        /\ \A k \in 1..Len(entities) : results[k].Entity = entities[k]

(* C2: an entity whose search returned the empty string gets the record    *)
(* "No data found".                                                        *)
C2_EmptySearchGivesNoData ==
    \A k \in 1..Len(results) :
        trace[k].empty => results[k] = Record(entities[k], NoDataFound)

C2_Witness ==
    \E k \in 1..Len(results) : trace[k].empty /\ ~trace[k].nosnip

(* C3: when the search returned text and the completion call failed, the   *)
(* record appended is "" (not "No data found"), no exception leaves the    *)
(* step, and the loop goes on to the next entity.                          *)
C3_FailedExtractionGivesBlank ==
    /\ [](\A k \in 1..Len(results) :
            (~trace[k].empty /\ trace[k].llm = "fail") =>
                /\ results[k] = Record(entities[k], <<>>)
                /\ results[k].Info # NoDataFound)
    /\ [][(pc = "extracting" /\ Len(trace') = i /\ trace'[i].llm = "fail") =>
            /\ pc' = "loop"
            /\ i' = i + 1
            /\ results' = Append(results, Record(entities[i], <<>>))]_vars

C3_Witness ==
    \E k \in 1..Len(results) :
        /\ ~trace[k].empty
        /\ trace[k].llm = "fail"
        /\ pc = "searching"
        /\ i = k + 1

(* C4: search returns the newline-join of the snippets that are present;   *)
(* a result without a snippet contributes nothing; [a, {}, b] gives a\nb.  *)
PresentSnippets(rs) ==
    LET present == SelectSeq(rs, LAMBDA r : r # EmptyDict)
    IN  [k \in 1..Len(present) |-> DictGet(present[k], "snippet", NullVal).s]

C4_Example == <<SnippetDict(StrVal(<<"a">>)), EmptyDict, SnippetDict(StrVal(<<"b">>))>>

C4_JoinOfPresentSnippets ==
    (fnRet.some /\ fnArg.kind = "ok" /\ ~fnRet.v.raised) =>
        LET rs == DictGet(fnArg.json, "organic_results", <<>>)
        IN  /\ fnRet.v.value = Join(PresentSnippets(rs))
            /\ rs = C4_Example => fnRet.v.value = <<"a", NL, "b">>

(* C5: no exception leaves process_entities. *)
C5_NoExceptionEscapes == pc # "raised"

(* C6: the results the session holds after a run of the script were        *)
(* computed from the table that is loaded now.                             *)
C6_ResultsOfCurrentTable ==
    (~Running /\ data.some /\ sessResults.some) => resultsFrom = data

(* C7: outbound calls are strictly sequential and grouped per entity: at   *)
(* most one call is in flight, every call ends before the next begins, a   *)
(* search precedes the extraction of its entity, and the calls of E[k] all *)
(* precede those of E[k+1].                                                *)
C7_CallsSequential ==
    /\ Cardinality(inflight) <= 1
    /\ \A j \in 1..Len(log) :
          IF j % 2 = 1
          THEN /\ log[j].ev = "begin"
               /\ j = Len(log) => inflight # {}
          ELSE /\ log[j] = Event("end", log[j - 1].kind, log[j - 1].idx)
               /\ j = Len(log) => inflight = {}
    /\ \A a, b \in Outbound :
          a < b =>
              \/ log[a].idx < log[b].idx
              \/ /\ log[a].idx = log[b].idx
                 /\ log[a].kind = "search"
                 /\ log[b].kind = "extract"
    /\ \A c \in inflight : log[Len(log)] = Event("begin", c.kind, c.idx)

C7_Witness ==
    /\ pc = "extracting"
    /\ i = 2
    /\ Begins("extract", 1) # {}
    /\ Cardinality(inflight) = 1

(* C8: a successful response with no snippet in any result (or with no     *)
(* results) makes search return "", so the record is "No data found" and   *)
(* the extractor is not called.                                            *)
C8_NoSnippetsGivesNoData ==
    \A k \in 1..Len(trace) :
        trace[k].nosnip =>
            /\ trace[k].empty
            /\ Begins("extract", k) = {}
            /\ k <= Len(results) => results[k].Info = NoDataFound

(* C9: st.session_state.results is None or a complete ResultSet of the     *)
(* column that was processed; it changes only when process_entities        *)
(* returns, to the whole list returned; a run that aborts leaves it as it  *)
(* was.                                                                    *)
C9_ResultsAssignedWhole ==
    /\ [](sessResults.some =>
            /\ resultsFrom.some
            /\ Len(sessResults.v) = Len(resultsFrom.v)
            /\ \A k \in 1..Len(resultsFrom.v) : sessResults.v[k].Entity = resultsFrom.v[k])
    /\ [][sessResults' # sessResults =>
            /\ pc = "loop"
            /\ pc' = "returned"
            /\ Len(results) = Len(entities)
            /\ sessResults' = Some(results)]_vars
    /\ [][pc' = "raised" => sessResults' = sessResults]_vars

C9_Witness ==
    /\ pc = "raised"
    /\ Len(results) >= 1
    /\ sessResults.some
    /\ Len(sessResults.v) = 2
    /\ sessResults.v[1] # results[1]

(* C10: in every run over n entities each entity occurrence is searched    *)
(* exactly once, its extraction is called once if its search returned text *)
(* and never otherwise, and the run makes between n and 2n calls.          *)
C10_CallCounts ==
    Finished =>
        /\ \A k \in 1..Len(entities) :
              /\ Cardinality(Begins("search", k)) = 1
              /\ Cardinality(Begins("extract", k)) =
                    IF k <= Len(trace) /\ ~trace[k].empty THEN 1 ELSE 0
        /\ Cardinality(Outbound) >= Len(entities)
        /\ Cardinality(Outbound) <= 2 * Len(entities)

(* Every run that does return made exactly those calls. *)
ReturnedRunsCallCounts ==
    pc = "returned" =>
        /\ \A k \in 1..Len(entities) :
              /\ Cardinality(Begins("search", k)) = 1
              /\ Cardinality(Begins("extract", k)) = IF trace[k].empty THEN 0 ELSE 1
        /\ Cardinality(Outbound) >= Len(entities)
        /\ Cardinality(Outbound) <= 2 * Len(entities)

====
